---- MODULE Spec2Model ----
(***************************************************************************)
(* A model of openmc_dagmc_wrapper: the tally classes of Tally.py          *)
(* (CellTally, CellTallies, TetMeshTally, TetMeshTallies) and the          *)
(* NeutronicsModel of neutronics_model.py (property setters,               *)
(* create_openmc_materials, find_bounding_box, export_xml).                *)
(*                                                                         *)
(* Python values are tagged records [kind, v]; a Python object is a        *)
(* function from the names of the attributes that were assigned to their   *)
(* values, so that reading an attribute nobody assigned raises             *)
(* AttributeError, as it does in Python.  A call's outcome is a record     *)
(* whose field exc is "none" or the name of the exception it raised.       *)
(***************************************************************************)
EXTENDS Integers, Sequences, FiniteSets, TLC

VARIABLES
    ret,        \* Tally.py: the last CellTally(...) call and its outcome
    lists,      \* Tally.py: the list objects of the heap, by reference
    calls,      \* Tally.py: the CellTallies(...) calls made so far, in order
    nm,         \* the NeutronicsModel object (its attributes)
    disk,       \* the files of the working directory
    engine,     \* openmc.lib: the external engine's state
    out,        \* the last call on the NeutronicsModel / TetMesh classes
    budget      \* how many calls of each bounded kind were made

vars == <<ret, lists, calls, nm, disk, engine, out, budget>>
tallyVars == <<ret, lists, calls>>
modelVars == <<nm, disk, engine, out, budget>>

\* ------------------------------------------------------------------------
\* Bounds of the model
\* ------------------------------------------------------------------------
MaxCalls == 2       \* CellTallies calls in one behaviour
MaxListLen == 2     \* longest target list after appends
MaxSets == 2        \* attribute assignments on the NeutronicsModel
MaxExports == 2     \* export_xml calls in one behaviour
MaxFinds == 2       \* find_bounding_box calls made by the caller

\* ------------------------------------------------------------------------
\* Python values
\* ------------------------------------------------------------------------
None == [kind |-> "none", v |-> "None"]
IntV(n) == [kind |-> "int", v |-> n]
StrV(s) == [kind |-> "str", v |-> s]
FloatV(s) == [kind |-> "float", v |-> s]

\* str(x) of a Python value
PyStr(x) == IF x.kind = "int" THEN ToString(x.v) ELSE x.v

HasAttr(o, a) == a \in DOMAIN o
SetAttr(o, a, x) == (a :> x) @@ o

Ok(o) == [exc |-> "none", o |-> o]
Raise(e, o) == [exc |-> e, o |-> o]

\* ------------------------------------------------------------------------
\* openmc: filters and physical data tables (external library values)
\* ------------------------------------------------------------------------
ParticleFilter(p) == [kind |-> "Particle", p1 |-> p, p2 |-> ""]
EnergyFilter(bins) == [kind |-> "Energy", p1 |-> bins, p2 |-> ""]
EnergyFunctionFilter(bins, coeffs) == [kind |-> "EnergyFunction", p1 |-> bins, p2 |-> coeffs]
MaterialFilter(mat) == [kind |-> "Material", p1 |-> mat.name, p2 |-> ToString(mat.id)]
CellFilter(id) == [kind |-> "Cell", p1 |-> ToString(id), p2 |-> ""]
MeshFilter(mesh) == [kind |-> "Mesh", p1 |-> mesh, p2 |-> ""]

\* openmc.data.dose_coefficients(particle, geometry): (energy bins, coefficients)
dose_coefficients(particle, geometry) ==
    [bins |-> particle \o "_" \o geometry \o "_energy_bins",
     coeffs |-> particle \o "_" \o geometry \o "_dose_coeffs"]

FastFluxBins == "1e6_1000e6"
CCFE709 == "CCFE-709"

\* ------------------------------------------------------------------------
\* Tally.py: CellTally
\* ------------------------------------------------------------------------
flux_scores ==
    {"neutron_fast_flux", "photon_fast_flux", "neutron_spectra",
     "photon_spectra", "neutron_effective_dose", "photon_effective_dose"}

\* CellTally.set_score
set_score(o) ==
    IF o.odw_score = "TBR" THEN Ok(SetAttr(o, "scores", "(n,Xt)"))
    ELSE IF o.odw_score \in flux_scores THEN Ok(SetAttr(o, "scores", "flux"))
    ELSE Ok(SetAttr(o, "scores", o.odw_score))

\* CellTally.set_name: reads self.target
set_name(o) ==
    IF ~HasAttr(o, "target") THEN Raise("AttributeError", o)
    ELSE IF o.target # None
         THEN Ok(SetAttr(o, "name", PyStr(o.target) \o "_" \o o.odw_score))
         ELSE Ok(SetAttr(o, "name", o.odw_score))

\* the loop of set_filter over self.materials.materials: every match
\* overwrites tally_filter, so the last match is kept
RECURSIVE MaterialLoop(_, _, _)
MaterialLoop(mats, target, tally_filter) ==
    IF mats = <<>> THEN tally_filter
    ELSE MaterialLoop(Tail(mats), target,
                      IF Head(mats).name = target.v
                      THEN [bound |-> TRUE, f |-> MaterialFilter(Head(mats))]
                      ELSE tally_filter)

Unbound == [bound |-> FALSE, f |-> ParticleFilter("")]

\* the additional filters of set_filter, by odw_score
additional_filters(odw_score) ==
    LET n == dose_coefficients("neutron", "ISO")
        p == dose_coefficients("photon", "ISO")
        photon_particle_filter == ParticleFilter("photon")
        neutron_particle_filter == ParticleFilter("neutron")
    IN  IF odw_score = "neutron_fast_flux"
        THEN <<neutron_particle_filter, EnergyFilter(FastFluxBins)>>
        ELSE IF odw_score = "photon_fast_flux"
        THEN <<photon_particle_filter, EnergyFilter(FastFluxBins)>>
        ELSE IF odw_score = "neutron_spectra"
        THEN <<neutron_particle_filter, EnergyFilter(CCFE709)>>
        ELSE IF odw_score = "photon_spectra"
        THEN <<photon_particle_filter, EnergyFilter(CCFE709)>>
        ELSE IF odw_score = "neutron_effective_dose"
        THEN <<neutron_particle_filter, EnergyFunctionFilter(n.bins, n.coeffs)>>
        ELSE IF odw_score = "photon_effective_dose"
        THEN <<photon_particle_filter, EnergyFunctionFilter(n.bins, n.coeffs)>>
        ELSE <<>>

\* CellTally.set_filter: reads self.target; tally_filter is a local that is
\* bound only by a matching material or an int target
set_filter(o) ==
    IF ~HasAttr(o, "target") THEN Raise("AttributeError", o)
    ELSE
    LET tf == IF o.target.kind = "str"
              THEN IF o.materials = None
                   THEN [bound |-> FALSE, f |-> ParticleFilter(""), exc |-> "AttributeError"]
                   ELSE MaterialLoop(o.materials.materials, o.target, Unbound)
                            @@ [exc |-> "none"]
              ELSE IF o.target.kind = "int"
                   THEN [bound |-> TRUE, f |-> CellFilter(o.target.v), exc |-> "none"]
                   ELSE Unbound @@ [exc |-> "none"]
    IN  IF tf.exc # "none" THEN Raise(tf.exc, o)
        ELSE IF ~tf.bound THEN Raise("UnboundLocalError", o)
        ELSE Ok(SetAttr(o, "filters", <<tf.f>> \o additional_filters(o.odw_score)))

\* openmc.Tally.__init__(**kwargs): the attributes the base class sets
TallyBase == [name |-> "", scores |-> "", filters |-> <<>>]

\* CellTally.__init__: the object after construction, or the exception
CellTallyInit(odw_score, target, materials) ==
    LET o0 == [odw_score |-> odw_score, targer |-> target, materials |-> materials]
                 @@ TallyBase
        r1 == set_score(o0)
        r2 == IF r1.exc = "none" THEN set_name(r1.o) ELSE r1
        r3 == IF r2.exc = "none" THEN set_filter(r2.o) ELSE r2
    IN  r3

\* openmc.Materials: the MaterialSet handed to the tally classes
Mats ==
    [materials |-> <<[name |-> "tungsten", id |-> 1], [name |-> "steel", id |-> 2]>>]

\* the inputs of CellTally(odw_score, target, materials)
OdwScores ==
    {"TBR", "neutron_fast_flux", "photon_fast_flux", "neutron_spectra",
     "photon_spectra", "neutron_effective_dose", "photon_effective_dose", "heating"}
Targets == {None, IntV(2), StrV("tungsten"), StrV("unobtainium"), FloatV("2.5")}
MaterialArgs == {None, Mats}

NoCall == [op |-> "none"]

\* my_tally = CellTally(odw_score, target, materials)
CellTally(odw_score, target, materials) ==
    /\ ret' = [op |-> "CellTally", odw_score |-> odw_score, target |-> target,
               materials |-> materials,
               res |-> CellTallyInit(odw_score, target, materials)]
    /\ UNCHANGED <<lists, calls, modelVars>>

\* ------------------------------------------------------------------------
\* Tally.py: CellTallies
\* ------------------------------------------------------------------------
\* the inner loop of CellTallies.__init__, over self.targets
RECURSIVE TargetLoop(_, _, _, _)
TargetLoop(score, targets, materials, acc) ==
    IF targets = <<>> THEN [exc |-> "none", tallies |-> acc]
    ELSE LET r == CellTallyInit(score, Head(targets), materials)
         IN  IF r.exc # "none" THEN [exc |-> r.exc, tallies |-> acc]
             ELSE TargetLoop(score, Tail(targets), materials, Append(acc, r.o))

\* the outer loop of CellTallies.__init__, over self.odw_scores
RECURSIVE ScoreLoop(_, _, _, _)
ScoreLoop(odw_scores, targets, materials, acc) ==
    IF odw_scores = <<>> THEN [exc |-> "none", tallies |-> acc]
    ELSE LET r == TargetLoop(Head(odw_scores), targets, materials, acc)
         IN  IF r.exc # "none" THEN r
             ELSE ScoreLoop(Tail(odw_scores), targets, materials, r.tallies)

\* the list object that is the default value of the parameter targets: it
\* is created once, when the def statement runs
DefaultRef == 0

ScoreLists == {<<>>, <<"TBR", "flux">>}
TargetLists == {<<>>, <<None>>, <<IntV(2)>>}

\* CellTallies.__init__ with the list object targetsRef bound to targets
CellTalliesInit(odw_scores, omitted, targetsRef, heap, materials) ==
    LET r == ScoreLoop(odw_scores, heap[targetsRef], materials, <<>>)
    IN  [odw_scores |-> odw_scores, omitted |-> omitted, targets |-> targetsRef,
         seen |-> heap[targetsRef], materials |-> materials,
         exc |-> r.exc, tallies |-> r.tallies]

\* my_tallies = CellTallies(odw_scores, materials=materials): targets omitted
CellTalliesDefault(odw_scores, materials) ==
    /\ Len(calls) < MaxCalls
    /\ calls' = Append(calls,
                       CellTalliesInit(odw_scores, TRUE, DefaultRef, lists, materials))
    /\ UNCHANGED <<ret, lists, modelVars>>

\* my_tallies = CellTallies(odw_scores, targets, materials): the caller's
\* list is a new object of the heap
CellTallies(odw_scores, targets, materials) ==
    /\ Len(calls) < MaxCalls
    /\ LET ref == Len(calls) + 1
           heap == (ref :> targets) @@ lists
       IN  /\ lists' = heap
           /\ calls' = Append(calls,
                              CellTalliesInit(odw_scores, FALSE, ref, heap, materials))
    /\ UNCHANGED <<ret, modelVars>>

\* my_tallies.targets.append(x) on an instance the caller holds
TargetsAppend(i, x) ==
    /\ calls[i].exc = "none"
    /\ Len(lists[calls[i].targets]) < MaxListLen
    /\ lists' = [lists EXCEPT ![calls[i].targets] = Append(@, x)]
    /\ UNCHANGED <<ret, calls, modelVars>>

InitTally ==
    /\ ret = NoCall
    /\ lists = (DefaultRef :> <<None>>)
    /\ calls = <<>>

NextTally ==
    \/ \E s \in OdwScores, t \in Targets, m \in MaterialArgs : CellTally(s, t, m)
    \/ \E s \in ScoreLists : CellTalliesDefault(s, Mats)
    \/ \E s \in ScoreLists, t \in TargetLists : CellTallies(s, t, Mats)
    \/ \E i \in 1..Len(calls), x \in {IntV(2)} : TargetsAppend(i, x)


\* ------------------------------------------------------------------------
\* Tally.py: TetMeshTally, TetMeshTallies
\* ------------------------------------------------------------------------
ListV(xs) == [kind |-> "list", v |-> xs]
TupleV(xs) == [kind |-> "tuple", v |-> xs]
BoolV(b) == [kind |-> "bool", v |-> b]
DictV(items) == [kind |-> "dict", v |-> items]

\* str.endswith
EndsWith(s, suffix) ==
    /\ Len(s) >= Len(suffix)
    /\ SubSeq(s, Len(s) - Len(suffix) + 1, Len(s)) = suffix

DotExo == <<".", "e", "x", "o">>
DotH5m == <<".", "h", "5", "m">>

\* file names, as Python strings of characters
TetH5m == StrV(<<"t", ".", "h", "5", "m">>)
TetExo == StrV(<<"t", ".", "e", "x", "o">>)
TetTxt == StrV(<<"t", ".", "t", "x", "t">>)
TetBare == StrV(<<"e", "x", "o">>)
TetFilenames == {TetH5m, TetExo, TetTxt, TetBare}

\* openmc.UnstructuredMesh(filename, library=...)
UnstructuredMesh(filename, library) ==
    [kind |-> "umesh", filename |-> filename, library |-> library]
NoMesh == [kind |-> "none", filename |-> <<>>, library |-> ""]

\* a + b of Python, on a keyword a and a str literal b: TypeError unless a
\* is a str
PyConcat(a, b) ==
    IF a.kind = "str" THEN [exc |-> "none", s |-> a.v \o b]
    ELSE [exc |-> "TypeError", s |-> ""]

\* an openmc.Tally with its name, scores and filters
Tally(name, scores, filters) == [name |-> name, scores |-> scores, filters |-> filters]

\* TetMeshTally.create_unstructured_mesh
create_unstructured_mesh(filename) ==
    IF filename.kind # "str" THEN [exc |-> "AttributeError", umesh |-> NoMesh]
    ELSE IF EndsWith(filename.v, DotExo)
    THEN [exc |-> "none", umesh |-> UnstructuredMesh(filename.v, "libmesh")]
    ELSE IF EndsWith(filename.v, DotH5m)
    THEN [exc |-> "none", umesh |-> UnstructuredMesh(filename.v, "moab")]
    ELSE [exc |-> "ValueError", umesh |-> NoMesh]

NoTally == Tally("", <<>>, <<>>)

\* TetMeshTally.__init__
TetMeshTallyInit(odw_score, filename) ==
    LET m == create_unstructured_mesh(filename)
        n == PyConcat(odw_score, "_on_3D_u_mesh")
    IN  IF m.exc # "none" THEN [exc |-> m.exc, umesh |-> NoMesh, tally |-> NoTally]
        ELSE IF n.exc # "none" THEN [exc |-> n.exc, umesh |-> m.umesh, tally |-> NoTally]
        ELSE [exc |-> "none", umesh |-> m.umesh,
              tally |-> Tally(n.s, <<odw_score>>, <<MeshFilter(m.umesh)>>)]

\* the loops of TetMeshTallies.__init__
RECURSIVE TetFileLoop(_, _, _)
TetFileLoop(score, filenames, acc) ==
    IF filenames = <<>> THEN [exc |-> "none", tallies |-> acc]
    ELSE LET r == TetMeshTallyInit(score, Head(filenames))
         IN  IF r.exc # "none" THEN [exc |-> r.exc, tallies |-> acc]
             ELSE TetFileLoop(score, Tail(filenames), Append(acc, r.tally))

RECURSIVE TetScoreLoop(_, _, _)
TetScoreLoop(odw_scores, filenames, acc) ==
    IF odw_scores = <<>> THEN [exc |-> "none", tallies |-> acc]
    ELSE LET r == TetFileLoop(Head(odw_scores), filenames, acc)
         IN  IF r.exc # "none" THEN r
             ELSE TetScoreLoop(Tail(odw_scores), filenames, r.tallies)

TetScores == {StrV("heating"), StrV("flux")}
TetScoreLists == {<<StrV("heating")>>, <<StrV("heating"), StrV("flux")>>}
TetFileLists == {<<TetH5m, TetExo>>, <<TetH5m, TetH5m>>, <<TetExo, TetTxt>>}

\* my_tally = TetMeshTally(odw_score, filename)
TetMeshTally(odw_score, filename) ==
    /\ out' = [op |-> "TetMeshTally", odw_score |-> odw_score,
               filename |-> filename, res |-> TetMeshTallyInit(odw_score, filename)]
    /\ UNCHANGED <<nm, disk, engine, budget, tallyVars>>

\* my_tallies = TetMeshTallies(odw_scores, filenames)
TetMeshTallies(odw_scores, filenames) ==
    /\ out' = [op |-> "TetMeshTallies", odw_scores |-> odw_scores,
               filenames |-> filenames, res |-> TetScoreLoop(odw_scores, filenames, <<>>)]
    /\ UNCHANGED <<nm, disk, engine, budget, tallyVars>>

\* ------------------------------------------------------------------------
\* neutronics_model.py: NeutronicsModel, its attributes and setters
\* ------------------------------------------------------------------------
\* openmc.data.REACTION_MT (reaction name -> MT) and REACTION_NAME (MT ->
\* reaction name): the keys of the external catalog
REACTION_MT_keys == {StrV("(n,Xt)"), StrV("(n,Xa)")}
REACTION_NAME_keys == {IntV(205), IntV(207)}

cell_tallies_options ==
    {StrV("TBR"), StrV("heating"), StrV("flux"), StrV("spectra"),
     StrV("absorption"), StrV("effective_dose")}
        \cup REACTION_MT_keys \cup REACTION_NAME_keys
mesh_tally_2d_options ==
    {StrV("heating"), StrV("flux"), StrV("absorption")}
        \cup REACTION_MT_keys \cup REACTION_NAME_keys
mesh_tally_3d_options ==
    {StrV("heating"), StrV("flux"), StrV("absorption"), StrV("effective_dose")}
        \cup REACTION_MT_keys \cup REACTION_NAME_keys

\* the body shared by the cell_tallies, mesh_tally_2d and mesh_tally_3d
\* setters: "none", or the exception the setter raises
TallyListCheck(value, output_options) ==
    IF value = None THEN "none"
    ELSE IF value.kind # "list" THEN "TypeError"
    ELSE IF \E i \in 1..Len(value.v) : value.v[i] \notin output_options
    THEN "ValueError"
    ELSE "none"

\* the property setters; an attribute without a property is assigned as is
SetterCheck(attr, value) ==
    IF attr = "h5m_filename"
    THEN IF value.kind = "str" THEN "none" ELSE "TypeError"
    ELSE IF attr = "tet_mesh_filename"
    THEN IF value.kind \in {"str", "none"} THEN "none" ELSE "TypeError"
    ELSE IF attr = "cell_tallies" THEN TallyListCheck(value, cell_tallies_options)
    ELSE IF attr = "mesh_tally_2d" THEN TallyListCheck(value, mesh_tally_2d_options)
    ELSE IF attr = "mesh_tally_3d" THEN TallyListCheck(value, mesh_tally_3d_options)
    ELSE IF attr = "materials"
    THEN IF value.kind = "dict" THEN "none" ELSE "TypeError"
    ELSE "none"

\* geometry files and the bounding box the engine computes for each
GeomSmall == "dagmc.h5m"
GeomBig == "bigger.h5m"
GeomMissing == "missing.h5m"
Vec(x, y, z) == <<x, y, z>>
Box(lower, upper) == TupleV(<<lower, upper>>)
global_bounding_box(h5m) ==
    IF h5m = GeomSmall THEN Box(Vec(-3, -4, -5), Vec(3, 4, 5))
    ELSE Box(Vec(-6, -7, -8), Vec(6, 7, 8))

\* material dictionaries: tag -> entry, in insertion order
MatEntry(tag, kind, v) == [tag |-> tag, entry |-> [kind |-> kind, v |-> v]]
GoodMaterials ==
    DictV(<<MatEntry("DT_plasma", "openmc.Material", "plasma"),
            MatEntry("mat1", "str", "eurofer"),
            MatEntry("mat2", "nmm.Material", "tungsten")>>)
BadMaterials ==
    DictV(<<MatEntry("mat1", "str", "eurofer"), MatEntry("mat2", "int", "1")>>)

DefaultSource == StrV("source")

\* NeutronicsModel.__init__(h5m_filename, source, materials) with every
\* optional argument at its default
NewNeutronicsModel(h5m_filename, source, materials) ==
    [materials |-> materials,
     h5m_filename |-> h5m_filename,
     tet_mesh_filename |-> None,
     source |-> source,
     cell_tallies |-> None,
     mesh_tally_2d |-> None,
     mesh_tally_3d |-> None,
     mesh_tally_tet |-> None,
     mesh_2d_resolution |-> TupleV(<<400, 400>>),
     mesh_3d_resolution |-> TupleV(<<100, 100, 100>>),
     mesh_2d_corners |-> None,
     mesh_3d_corners |-> None,
     photon_transport |-> BoolV(TRUE),
     model |-> None,
     tallies |-> None,
     bounding_box |-> None,
     openmc_materials |-> None,
     mats |-> None]

\* the values a caller assigns to each attribute
CustomCorners == Box(Vec(0, 0, 0), Vec(1, 2, 3))
OtherBox == Box(Vec(-9, -9, -9), Vec(9, 9, 9))
\* corners with lower above upper on every axis
InvertedCorners == Box(Vec(10, 10, 10), Vec(-10, -10, -10))
Assignments ==
    {<<"tet_mesh_filename", f>> : f \in TetFilenames \cup {IntV(1)}}
    \cup {<<"mesh_tally_tet", x>> : x \in
            {ListV(<<StrV("heating")>>), ListV(<<StrV("coucou")>>), IntV(1)}}
    \cup {<<"mesh_tally_3d", x>> : x \in
            {ListV(<<StrV("heating")>>), ListV(<<StrV("effective_dose")>>),
             ListV(<<StrV("coucou")>>), IntV(1)}}
    \cup {<<"mesh_tally_2d", x>> : x \in
            {ListV(<<StrV("flux")>>), ListV(<<StrV("coucou")>>), IntV(1)}}
    \cup {<<"cell_tallies", x>> : x \in
            {ListV(<<StrV("TBR")>>), ListV(<<StrV("spectra")>>),
             ListV(<<StrV("effective_dose")>>),
             ListV(<<StrV("heating"), StrV("heating")>>),
             ListV(<<StrV("coucou")>>), IntV(1), StrV("heating")}}
    \cup {<<"mesh_3d_corners", CustomCorners>>, <<"mesh_2d_corners", CustomCorners>>,
          <<"bounding_box", OtherBox>>,
          <<"mesh_3d_corners", InvertedCorners>>, <<"mesh_2d_corners", InvertedCorners>>,
          <<"bounding_box", InvertedCorners>>,
          <<"photon_transport", BoolV(FALSE)>>,
          <<"mesh_3d_resolution", TupleV(<<10, 20, 30>>)>>,
          <<"mesh_2d_resolution", TupleV(<<40, 50>>)>>,
          <<"h5m_filename", StrV(GeomBig)>>, <<"h5m_filename", IntV(1)>>,
          <<"materials", BadMaterials>>, <<"materials", IntV(1)>>}

\* my_model.<attr> = value
SetAttribute(attr, value) ==
    /\ budget.sets < MaxSets
    /\ budget' = [budget EXCEPT !.sets = @ + 1]
    /\ LET e == SetterCheck(attr, value)
       IN  /\ nm' = IF e = "none" THEN [nm EXCEPT ![attr] = value] ELSE nm
           /\ out' = [op |-> "set", attr |-> attr, value |-> value, exc |-> e]
    /\ UNCHANGED <<disk, engine, tallyVars>>

\* ------------------------------------------------------------------------
\* neutronics_model.py: the files, create_openmc_materials, find_bounding_box
\* ------------------------------------------------------------------------
XmlFiles == {"geometry.xml", "materials.xml", "settings.xml", "tallies.xml", "plots.xml"}
GeomFiles == {GeomSmall, GeomBig, GeomMissing}

\* utils.silently_remove_file
silently_remove_file(d, f) == [d EXCEPT ![f] = "absent"]
\* <object>.export_to_xml(): the file is written by the call named who
export_to_xml(d, f, who) == [d EXCEPT ![f] = who]

\* NeutronicsModel.create_material
create_material(material_tag, material_entry, id) ==
    IF material_entry.kind \in {"str", "openmc.Material", "nmm.Material"}
    THEN [exc |-> "none", m |-> [name |-> material_tag, id |-> id]]
    ELSE [exc |-> "TypeError", m |-> [name |-> "", id |-> id]]

\* the loop of create_openmc_materials over self.materials.items()
RECURSIVE MaterialsLoop(_, _)
MaterialsLoop(items, acc) ==
    IF items = <<>> THEN [exc |-> "none", d |-> acc]
    ELSE LET r == create_material(Head(items).tag, Head(items).entry, Len(acc) + 1)
         IN  IF r.exc # "none" THEN [exc |-> r.exc, d |-> acc]
             ELSE MaterialsLoop(Tail(items), Append(acc, [tag |-> Head(items).tag, m |-> r.m]))

\* a program state threaded through a handler: the object, the files, the
\* engine, and the exception raised so far
St(n, d, e, exc) == [nm |-> n, disk |-> d, engine |-> e, exc |-> exc]
Fail(st, e) == [st EXCEPT !.exc = e]

\* create_openmc_materials after its loop: the attributes and materials.xml
store_openmc_materials(st, r, who) ==
    IF r.exc # "none" THEN Fail(st, r.exc)
    ELSE [st EXCEPT !.nm.openmc_materials = DictV(r.d),
                    !.nm.mats = ListV([i \in 1..Len(r.d) |-> r.d[i].m]),
                    !.disk = export_to_xml(@, "materials.xml", who)]

\* NeutronicsModel.create_openmc_materials
create_openmc_materials(st, who) ==
    store_openmc_materials(
        [st EXCEPT !.disk = silently_remove_file(@, "materials.xml")],
        MaterialsLoop(st.nm.materials.v, <<>>), who)

\* Path(self.h5m_filename).is_file, the bound method the code tests without
\* calling it: an object, which is true whatever the files are
is_file_method(d, h5m) == TRUE

\* find_bounding_box from openmc.lib.init on: the engine reads the geometry
\* file, answers the query unless qfail, is finalised, and the files go
find_bounding_box_engine(st, qfail) ==
    IF st.disk[st.nm.h5m_filename.v] = "absent"
    THEN [st |-> Fail(st, "RuntimeError"), bbox |-> None]
    ELSE IF qfail
    THEN [st |-> [st EXCEPT !.engine.live = TRUE, !.engine.inits = @ + 1,
                            !.exc = "RuntimeError"],
          bbox |-> None]
    ELSE [st |-> [st EXCEPT
                    !.engine.live = FALSE, !.engine.inits = @ + 1,
                    !.disk = silently_remove_file(
                               silently_remove_file(
                                 silently_remove_file(
                                   silently_remove_file(@, "settings.xml"),
                                   "plots.xml"),
                                 "geometry.xml"),
                               "materials.xml")],
          bbox |-> global_bounding_box(st.nm.h5m_filename.v)]

\* find_bounding_box after create_openmc_materials: plots.xml, settings.xml
find_bounding_box_settings(st, who, qfail) ==
    IF st.exc # "none" THEN [st |-> st, bbox |-> None]
    ELSE find_bounding_box_engine(
           [st EXCEPT !.disk = export_to_xml(export_to_xml(@, "plots.xml", who),
                                             "settings.xml", who)],
           qfail)

\* NeutronicsModel.find_bounding_box; qfail: the engine's query fails
find_bounding_box(st, who, qfail) ==
    IF ~is_file_method(st.disk, st.nm.h5m_filename.v)
    THEN [st |-> Fail(st, "FileNotFoundError"), bbox |-> None]
    ELSE find_bounding_box_settings(
           create_openmc_materials(
             [st EXCEPT !.disk = export_to_xml(@, "geometry.xml", who)], who),
           who, qfail)

\* ------------------------------------------------------------------------
\* neutronics_model.py: export_xml
\* ------------------------------------------------------------------------
\* openmc.RegularMesh with its dimension and corners
RegularMesh(mesh_id, name, dimension, lower_left, upper_right) ==
    [kind |-> "mesh", mesh_id |-> mesh_id, name |-> name, dimension |-> dimension,
     lower_left |-> lower_left, upper_right |-> upper_right]
\* x == True and x is True of Python
EqTrue(x) == (x.kind = "bool" /\ x.v) \/ (x.kind = "int" /\ x.v = 1)
IsTrue(x) == x = BoolV(TRUE)

\* self.tallies.append(tally), for each tally of ts
AppendTallies(st, ts) == [st EXCEPT !.nm.tallies = ListV(@.v \o ts)]

\* for standard_tally in self.mesh_tally_tet: ...
RECURSIVE TetTallyLoop(_, _, _)
TetTallyLoop(keywords, umesh_filter, acc) ==
    IF keywords = <<>> THEN [exc |-> "none", tallies |-> acc]
    ELSE LET n == PyConcat(Head(keywords), "_on_3D_u_mesh")
         IN  IF n.exc # "none" THEN [exc |-> n.exc, tallies |-> acc]
             ELSE TetTallyLoop(Tail(keywords), umesh_filter,
                               Append(acc, Tally(n.s, <<Head(keywords)>>, <<umesh_filter>>)))

\* a faulty variant of tet_umesh, for the sensitivity of C8: every file name
\* is accepted and read with moab
tet_umesh_any_extension(tet_mesh_filename) ==
    [exc |-> "none", umesh |-> UnstructuredMesh(tet_mesh_filename, "moab")]

\* export_xml, if self.tet_mesh_filename is not None: the mesh by extension
tet_umesh(tet_mesh_filename) ==
    IF EndsWith(tet_mesh_filename, DotExo)
    THEN [exc |-> "none", umesh |-> UnstructuredMesh(tet_mesh_filename, "libmesh")]
    ELSE IF EndsWith(tet_mesh_filename, DotH5m)
    THEN [exc |-> "none", umesh |-> UnstructuredMesh(tet_mesh_filename, "moab")]
    ELSE [exc |-> "ValueError", umesh |-> NoMesh]

\* the locals of export_xml that outlive a section, beside the state
NoRegularMesh == [kind |-> "none"]
NoMeshes == <<NoRegularMesh, NoRegularMesh, NoRegularMesh>>
NoLocals == [umesh |-> NoMesh, mesh_xyz |-> NoRegularMesh, meshes |-> NoMeshes, finds |-> 0]
Px(st, loc) == [st |-> st, loc |-> loc]

\* the state after a loop that appended r.tallies and ended with r.exc
AfterLoop(st, r) == Fail(AppendTallies(st, r.tallies), r.exc)

\* export_xml: the tet mesh tallies, the mesh m being built
tet_tallies(x, m) ==
    IF m.exc # "none" THEN Px(Fail(x.st, m.exc), x.loc)
    \* iterating None, or an int, raises TypeError
    ELSE IF x.st.nm.mesh_tally_tet.kind # "list"
    THEN Px(Fail(x.st, "TypeError"), [x.loc EXCEPT !.umesh = m.umesh])
    ELSE Px(AfterLoop(x.st, TetTallyLoop(x.st.nm.mesh_tally_tet.v,
                                         MeshFilter(m.umesh), <<>>)),
            [x.loc EXCEPT !.umesh = m.umesh])

\* export_xml: if self.tet_mesh_filename is not None
tet_section(x) ==
    IF x.st.exc # "none" \/ x.st.nm.tet_mesh_filename = None THEN x
    ELSE tet_tallies(x, tet_umesh(x.st.nm.tet_mesh_filename.v))

\* a faulty variant of DoseTally3d, for the sensitivity of C19: the dose
\* function is the neutron one for every particle
DoseTally3d_neutron_function(prefix, particle, mesh_xyz) ==
    LET c == dose_coefficients("neutron", "ISO")
    IN  Tally(prefix.v \o "_" \o particle \o "_on_3D_mesh", <<StrV("flux")>>,
              <<MeshFilter(mesh_xyz), ParticleFilter(particle),
                EnergyFunctionFilter(c.bins, c.coeffs)>>)

\* the dose tallies of one particle on the 3-D mesh
DoseTally3d(prefix, particle, mesh_xyz) ==
    LET c == dose_coefficients(particle, "ISO")
    IN  Tally(prefix.v \o "_" \o particle \o "_on_3D_mesh", <<StrV("flux")>>,
              <<MeshFilter(mesh_xyz), ParticleFilter(particle),
                EnergyFunctionFilter(c.bins, c.coeffs)>>)

\* for standard_tally in self.mesh_tally_3d: ...
RECURSIVE Mesh3dLoop(_, _, _, _)
Mesh3dLoop(keywords, mesh_xyz, photon_transport, acc) ==
    IF keywords = <<>> THEN [exc |-> "none", tallies |-> acc]
    ELSE LET k == Head(keywords)
         IN  IF k = StrV("effective_dose")
             THEN Mesh3dLoop(Tail(keywords), mesh_xyz, photon_transport,
                    acc \o <<DoseTally3d(k, "neutron", mesh_xyz)>>
                        \o (IF EqTrue(photon_transport)
                            THEN <<DoseTally3d(k, "photon", mesh_xyz)>> ELSE <<>>))
             ELSE LET n == PyConcat(k, "_on_3D_mesh")
                  IN  IF n.exc # "none" THEN [exc |-> n.exc, tallies |-> acc]
                      ELSE Mesh3dLoop(Tail(keywords), mesh_xyz, photon_transport,
                             Append(acc, Tally(n.s, <<k>>, <<MeshFilter(mesh_xyz)>>)))

\* self.bounding_box = <the value find_bounding_box returned>
store_bounding_box(r) ==
    IF r.st.exc # "none" THEN r.st ELSE [r.st EXCEPT !.nm.bounding_box = r.bbox]

\* a faulty variant of ensure_bounding_box, for the sensitivity of C12: the
\* bounding box is looked up even when the object holds one
ensure_bounding_box_always(x, who, qfail) ==
    Px(store_bounding_box(find_bounding_box(x.st, who, qfail)),
       [x.loc EXCEPT !.finds = @ + 1])

\* if self.bounding_box is None: self.bounding_box = self.find_bounding_box()
ensure_bounding_box(x, who, qfail) ==
    IF x.st.nm.bounding_box # None THEN x
    ELSE Px(store_bounding_box(find_bounding_box(x.st, who, qfail)),
            [x.loc EXCEPT !.finds = @ + 1])

\* a faulty variant of mesh_3d, for the sensitivity of C9: the two corners
\* are exchanged
mesh_3d_corners_exchanged(n) ==
    IF n.mesh_3d_corners = None
    THEN RegularMesh(1, "3d_mesh", n.mesh_3d_resolution.v,
                     n.bounding_box.v[2], n.bounding_box.v[1])
    ELSE RegularMesh(1, "3d_mesh", n.mesh_3d_resolution.v,
                     n.mesh_3d_corners.v[2], n.mesh_3d_corners.v[1])

\* the 3-D mesh of export_xml, from the object after the bounding box
\* was looked up
mesh_3d(n) ==
    IF n.mesh_3d_corners = None
    THEN RegularMesh(1, "3d_mesh", n.mesh_3d_resolution.v,
                     n.bounding_box.v[1], n.bounding_box.v[2])
    ELSE RegularMesh(1, "3d_mesh", n.mesh_3d_resolution.v,
                     n.mesh_3d_corners.v[1], n.mesh_3d_corners.v[2])

\* export_xml: the tallies on the 3-D mesh, once its corners are known
mesh_3d_tallies(x) ==
    IF x.st.exc # "none" THEN x
    ELSE Px(AfterLoop(x.st, Mesh3dLoop(x.st.nm.mesh_tally_3d.v, mesh_3d(x.st.nm),
                                       x.st.nm.photon_transport, <<>>)),
            [x.loc EXCEPT !.mesh_xyz = mesh_3d(x.st.nm)])

\* export_xml: if self.mesh_tally_3d is not None
mesh_3d_section(x, who, qfail) ==
    IF x.st.exc # "none" \/ x.st.nm.mesh_tally_3d = None THEN x
    ELSE mesh_3d_tallies(IF x.st.nm.mesh_3d_corners = None
                         THEN ensure_bounding_box(x, who, qfail) ELSE x)

\* a faulty variant of plane_dimension, for the sensitivity of C11: the two
\* entries of the resolution are exchanged
plane_dimension_exchanged(plane, mesh_2d_resolution) ==
    IF plane = "xz" THEN <<mesh_2d_resolution[1], 1, mesh_2d_resolution[2]>>
    ELSE IF plane = "xy" THEN <<mesh_2d_resolution[1], mesh_2d_resolution[2], 1>>
    ELSE <<1, mesh_2d_resolution[1], mesh_2d_resolution[2]>>

\* the three plane meshes of export_xml: dimension by plane
plane_dimension(plane, mesh_2d_resolution) ==
    IF plane = "xz" THEN <<mesh_2d_resolution[2], 1, mesh_2d_resolution[1]>>
    ELSE IF plane = "xy" THEN <<mesh_2d_resolution[2], mesh_2d_resolution[1], 1>>
    ELSE <<1, mesh_2d_resolution[2], mesh_2d_resolution[1]>>

\* a faulty variant of plane_lower_left, for the sensitivity of C10: the
\* lower corner of the bounding box on all three axes
plane_lower_left_full_extent(plane, bounding_box) == bounding_box[1]

\* the corners of a plane mesh derived from the bounding box
plane_lower_left(plane, bounding_box) ==
    IF plane = "xz" THEN <<bounding_box[1][1], -1, bounding_box[1][3]>>
    ELSE IF plane = "xy" THEN <<bounding_box[1][1], bounding_box[1][2], -1>>
    ELSE <<-1, bounding_box[1][2], bounding_box[1][3]>>

plane_upper_right(plane, bounding_box) ==
    IF plane = "xz" THEN <<bounding_box[2][1], 1, bounding_box[2][3]>>
    ELSE IF plane = "xy" THEN <<bounding_box[2][1], bounding_box[2][2], 1>>
    ELSE <<1, bounding_box[2][2], bounding_box[2][3]>>

PlaneId(plane) == IF plane = "xz" THEN 2 ELSE IF plane = "xy" THEN 3 ELSE 4
Planes == <<"xz", "xy", "yz">>

\* one plane mesh of export_xml, from the object after the bounding box
\* was looked up
mesh_2d(n, plane) ==
    IF n.mesh_2d_corners = None
    THEN RegularMesh(PlaneId(plane), "2d_mesh_" \o plane,
                     plane_dimension(plane, n.mesh_2d_resolution.v),
                     plane_lower_left(plane, n.bounding_box.v),
                     plane_upper_right(plane, n.bounding_box.v))
    ELSE RegularMesh(PlaneId(plane), "2d_mesh_" \o plane,
                     plane_dimension(plane, n.mesh_2d_resolution.v),
                     n.mesh_2d_corners.v[1], n.mesh_2d_corners.v[2])

\* for mesh_filter, plane in zip([mesh_xz, mesh_xy, mesh_yz], ["xz", "xy", "yz"])
RECURSIVE PlaneLoop(_, _, _, _)
PlaneLoop(k, meshes, i, acc) ==
    IF i > Len(Planes) THEN [exc |-> "none", tallies |-> acc]
    ELSE LET n == PyConcat(k, "_on_2D_mesh_" \o Planes[i])
         IN  IF n.exc # "none" THEN [exc |-> n.exc, tallies |-> acc]
             ELSE PlaneLoop(k, meshes, i + 1,
                            Append(acc, Tally(n.s, <<k>>, <<MeshFilter(meshes[i])>>)))

\* for standard_tally in self.mesh_tally_2d: ...
RECURSIVE Mesh2dLoop(_, _, _)
Mesh2dLoop(keywords, meshes, acc) ==
    IF keywords = <<>> THEN [exc |-> "none", tallies |-> acc]
    ELSE LET r == PlaneLoop(Head(keywords), meshes, 1, acc)
         IN  IF r.exc # "none" THEN r
             ELSE Mesh2dLoop(Tail(keywords), meshes, r.tallies)

\* the three plane meshes, in the order of Planes
meshes_2d(n) == [i \in 1..Len(Planes) |-> mesh_2d(n, Planes[i])]

\* export_xml: the tallies on the plane meshes, once the corners are known
mesh_2d_tallies(x) ==
    IF x.st.exc # "none" THEN x
    ELSE Px(AfterLoop(x.st, Mesh2dLoop(x.st.nm.mesh_tally_2d.v, meshes_2d(x.st.nm), <<>>)),
            [x.loc EXCEPT !.meshes = meshes_2d(x.st.nm)])

\* export_xml: if self.mesh_tally_2d is not None
mesh_2d_section(x, who, qfail) ==
    IF x.st.exc # "none" \/ x.st.nm.mesh_tally_2d = None THEN x
    ELSE mesh_2d_tallies(IF x.st.nm.mesh_2d_corners = None
                         THEN ensure_bounding_box(x, who, qfail) ELSE x)

\* export_xml: self.create_openmc_materials()
materials_section(x, who) ==
    IF x.st.exc # "none" THEN x ELSE Px(create_openmc_materials(x.st, who), x.loc)

\* a faulty variant of _add_tally_for_every_material, for the sensitivity of
\* C17: DT_plasma is not left out
RECURSIVE add_tally_for_all_materials(_, _, _, _, _)
add_tally_for_all_materials(items, suffix, score, more_filters, acc) ==
    IF items = <<>> THEN [exc |-> "none", tallies |-> acc]
    ELSE IF suffix.kind # "str" THEN [exc |-> "TypeError", tallies |-> acc]
    ELSE add_tally_for_all_materials(Tail(items), suffix, score, more_filters,
           Append(acc, Tally(Head(items).tag \o "_" \o suffix.v, <<score>>,
                             <<MaterialFilter(Head(items).m)>> \o more_filters)))

\* NeutronicsModel._add_tally_for_every_material
RECURSIVE add_tally_for_every_material(_, _, _, _, _)
add_tally_for_every_material(items, suffix, score, more_filters, acc) ==
    IF items = <<>> THEN [exc |-> "none", tallies |-> acc]
    ELSE IF Head(items).tag # "DT_plasma"
    THEN IF suffix.kind # "str" THEN [exc |-> "TypeError", tallies |-> acc]
         ELSE add_tally_for_every_material(Tail(items), suffix, score, more_filters,
                Append(acc, Tally(Head(items).tag \o "_" \o suffix.v, <<score>>,
                                  <<MaterialFilter(Head(items).m)>> \o more_filters)))
    ELSE add_tally_for_every_material(Tail(items), suffix, score, more_filters, acc)

\* the tallies of one keyword of self.cell_tallies
cell_tally(standard_tally, items, photon_transport, acc) ==
    LET n == dose_coefficients("neutron", "ISO")
        p == dose_coefficients("photon", "ISO")
    IN  IF standard_tally = StrV("TBR")
        THEN add_tally_for_every_material(items, StrV("TBR"), StrV("(n,Xt)"), <<>>,
                 Append(acc, Tally("TBR", <<StrV("(n,Xt)")>>, <<>>)))
        ELSE IF standard_tally = StrV("spectra")
        THEN LET r == add_tally_for_every_material(items, StrV("neutron_spectra"),
                          StrV("flux"),
                          <<ParticleFilter("neutron"), EnergyFilter(CCFE709)>>, acc)
             IN  IF IsTrue(photon_transport)
                 THEN add_tally_for_every_material(items, StrV("photon_spectra"),
                          StrV("flux"),
                          <<ParticleFilter("photon"), EnergyFilter(CCFE709)>>, r.tallies)
                 ELSE r
        ELSE IF standard_tally = StrV("effective_dose")
        THEN LET r == add_tally_for_every_material(items, StrV("neutron_effective_dose"),
                          StrV("flux"),
                          <<EnergyFunctionFilter(n.bins, n.coeffs),
                            ParticleFilter("neutron")>>, acc)
             IN  IF EqTrue(photon_transport)
                 THEN add_tally_for_every_material(items, StrV("photon_effective_dose"),
                          StrV("flux"),
                          <<EnergyFunctionFilter(p.bins, p.coeffs),
                            ParticleFilter("photon")>>, r.tallies)
                 ELSE r
        ELSE add_tally_for_every_material(items, standard_tally, standard_tally, <<>>, acc)

\* for standard_tally in self.cell_tallies: ...
RECURSIVE CellLoop(_, _, _, _)
CellLoop(keywords, items, photon_transport, acc) ==
    IF keywords = <<>> THEN [exc |-> "none", tallies |-> acc]
    ELSE LET r == cell_tally(Head(keywords), items, photon_transport, acc)
         IN  IF r.exc # "none" THEN r
             ELSE CellLoop(Tail(keywords), items, photon_transport, r.tallies)

\* export_xml: if self.cell_tallies is not None
cell_section(x) ==
    IF x.st.exc # "none" \/ x.st.nm.cell_tallies = None THEN x
    ELSE Px(AfterLoop(x.st, CellLoop(x.st.nm.cell_tallies.v, x.st.nm.openmc_materials.v,
                                     x.st.nm.photon_transport, <<>>)),
            x.loc)

\* openmc.model.Model(geom, self.mats, settings, self.tallies)
Model(n, args) ==
    [kind |-> "model",
     geometry |-> n.h5m_filename,
     materials |-> n.mats,
     settings |-> [batches |-> args.simulation_batches,
                   particles |-> args.simulation_particles_per_batch,
                   photon_transport |-> n.photon_transport,
                   source |-> n.source,
                   max_lost_particles |->
                       IF args.max_lost_particles > 0
                       THEN IntV(args.max_lost_particles) ELSE None],
     tallies |-> n.tallies]

\* export_xml: the arguments that are None fall back to the attributes
fallback(n, args) ==
    [a \in DOMAIN args |-> IF a \in DOMAIN n /\ args[a] = None THEN n[a] ELSE args[a]]

\* a faulty variant of start_export, for the sensitivity of C15: the tallies
\* of an earlier call are kept
start_export_keeping_tallies(st, args) ==
    Px([st EXCEPT !.disk = silently_remove_file(
                             silently_remove_file(
                               silently_remove_file(@, "geometry.xml"),
                               "settings.xml"),
                             "tallies.xml"),
                  !.nm.tallies = IF @.kind = "list" THEN @ ELSE ListV(<<>>)],
       NoLocals)

\* export_xml up to self.tallies = openmc.Tallies()
start_export(st, args) ==
    Px([st EXCEPT !.disk = silently_remove_file(
                             silently_remove_file(
                               silently_remove_file(@, "geometry.xml"),
                               "settings.xml"),
                             "tallies.xml"),
                  !.nm.tallies = ListV(<<>>)],
       NoLocals)

\* export_xml from openmc.model.Model(...) on
finish_export(x, args, who) ==
    IF x.st.exc # "none" THEN [st |-> x.st, model |-> None, loc |-> x.loc]
    ELSE [st |-> [x.st EXCEPT
                    !.nm.model = Model(x.st.nm, args),
                    !.disk = export_to_xml(
                               export_to_xml(
                                 export_to_xml(@, "geometry.xml", who),
                                 "settings.xml", who),
                               "tallies.xml", who)],
          model |-> Model(x.st.nm, args), loc |-> x.loc]

\* a faulty variant of export_xml, for the sensitivity of C27: the materials
\* are built before the meshes, so that a find_bounding_box made for a mesh
\* removes materials.xml after it was written
export_xml_materials_first(st, args, who, qfail) ==
    finish_export(
      cell_section(
        mesh_2d_section(
          mesh_3d_section(
            materials_section(tet_section(start_export(st, args)), who),
            who, qfail),
          who, qfail)),
      args, who)

\* NeutronicsModel.export_xml: the state, the returned model and the
\* meshes built when the call ends
export_xml(st, args, who, qfail) ==
    finish_export(
      cell_section(
        materials_section(
          mesh_2d_section(
            mesh_3d_section(
              tet_section(start_export(st, args)),
              who, qfail),
            who, qfail),
          who)),
      args, who)

\* the arguments of export_xml a caller passes
NoArgs ==
    [simulation_batches |-> 2, simulation_particles_per_batch |-> 10,
     max_lost_particles |-> 0,
     source |-> None, mesh_tally_3d |-> None, mesh_tally_tet |-> None,
     mesh_tally_2d |-> None, cell_tallies |-> None, mesh_2d_resolution |-> None,
     mesh_3d_resolution |-> None, mesh_2d_corners |-> None, mesh_3d_corners |-> None]
ExportArgs ==
    {NoArgs,
     [NoArgs EXCEPT !.mesh_tally_3d = ListV(<<StrV("flux")>>),
                    !.mesh_3d_corners = CustomCorners,
                    !.max_lost_particles = 5]}

Who(op, n) == op \o ToString(n)

\* the effect of a call that ended in state r.st on the object, the files
\* and the engine
Commit(r) ==
    /\ nm' = r.st.nm
    /\ disk' = r.st.disk
    /\ engine' = r.st.engine

ExportOut(r, args, who) ==
    out' = [op |-> "export_xml", who |-> who, args |-> args,
            passed |-> fallback(nm, args), exc |-> r.st.exc,
            model |-> r.model, loc |-> r.loc, before |-> nm]

\* my_model.export_xml(...)
ExportXml(args, qfail) ==
    /\ budget.exports < MaxExports
    /\ budget' = [budget EXCEPT !.exports = @ + 1]
    /\ LET r == export_xml(St(nm, disk, engine, "none"), args,
                           Who("export_xml", budget.exports + 1), qfail)
       IN  Commit(r) /\ ExportOut(r, args, Who("export_xml", budget.exports + 1))
    /\ UNCHANGED tallyVars

FindOut(r, who) ==
    out' = [op |-> "find_bounding_box", who |-> who, exc |-> r.st.exc, bbox |-> r.bbox]

\* my_model.find_bounding_box()
FindBoundingBox(qfail) ==
    /\ budget.finds < MaxFinds
    /\ budget' = [budget EXCEPT !.finds = @ + 1]
    /\ LET r == find_bounding_box(St(nm, disk, engine, "none"),
                                  Who("find_bounding_box", budget.finds + 1), qfail)
       IN  Commit(r) /\ FindOut(r, Who("find_bounding_box", budget.finds + 1))
    /\ UNCHANGED tallyVars

\* the working directory before the program runs: the geometry files, and
\* either no xml file or the xml files of an earlier run
InitialDisks ==
    {[f \in XmlFiles \cup GeomFiles |->
        IF f \in XmlFiles THEN x ELSE IF f = GeomMissing THEN "absent" ELSE "prior"]
     : x \in {"absent", "prior"}}

InitModel ==
    /\ \E h \in {GeomSmall, GeomMissing} :
          nm = NewNeutronicsModel(StrV(h), DefaultSource, GoodMaterials)
    /\ disk \in InitialDisks
    /\ engine = [live |-> FALSE, inits |-> 0]
    /\ out = NoCall
    /\ budget = [sets |-> 0, exports |-> 0, finds |-> 0]

NextModel ==
    \/ \E a \in Assignments : SetAttribute(a[1], a[2])
    \/ \E args \in ExportArgs, qfail \in BOOLEAN : ExportXml(args, qfail)
    \/ \E qfail \in BOOLEAN : FindBoundingBox(qfail)

\* the assignments that configure the tet mesh
TetAssignments == {a \in Assignments : a[1] \in {"tet_mesh_filename", "mesh_tally_tet"}}

NextTet ==
    \/ \E s \in TetScores, f \in TetFilenames : TetMeshTally(s, f)
    \/ \E s \in TetScoreLists, f \in TetFileLists : TetMeshTallies(s, f)
    \/ \E a \in TetAssignments : SetAttribute(a[1], a[2])
    \/ \E args \in ExportArgs : ExportXml(args, FALSE)

\* ------------------------------------------------------------------------
\* Specifications
\* ------------------------------------------------------------------------
Init == InitTally /\ InitModel

\* one NeutronicsModel on a clean working directory
InitOne ==
    /\ Init
    /\ nm.h5m_filename = StrV(GeomSmall)
    /\ \A f \in XmlFiles : disk[f] = "absent"

\* the NeutronicsModel: assignments, find_bounding_box, export_xml
Spec == Init /\ [][NextModel]_vars

\* the tet mesh tallies of Tally.py and of export_xml
SpecTet == InitOne /\ [][NextTet]_vars

\* the cell tallies of Tally.py
SpecTally == InitOne /\ [][NextTally]_vars

\* ------------------------------------------------------------------------
\* Claims about Tally.py (CellTally, CellTallies), under SpecTally
\* ------------------------------------------------------------------------
\* the catalog of the specification, section 4.1: score and extra filters
CatalogScore(tally_type) ==
    IF tally_type = "TBR" THEN "(n,Xt)"
    ELSE IF tally_type \in {"neutron_fast_flux", "photon_fast_flux", "neutron_spectra",
                            "photon_spectra", "neutron_effective_dose",
                            "photon_effective_dose"}
    THEN "flux" ELSE tally_type

CatalogSpecies(tally_type) ==
    IF tally_type \in {"neutron_fast_flux", "neutron_spectra", "neutron_effective_dose"}
    THEN "neutron" ELSE "photon"

CatalogExtraKinds(tally_type) ==
    IF tally_type \in {"neutron_fast_flux", "photon_fast_flux", "neutron_spectra",
                       "photon_spectra"}
    THEN <<"Particle", "Energy">>
    ELSE IF tally_type \in {"neutron_effective_dose", "photon_effective_dose"}
    THEN <<"Particle", "EnergyFunction">>
    ELSE <<>>

\* a target the specification accepts: absent, an integer, or the name of
\* a material of the MaterialSet
ValidTarget(target, materials) ==
    \/ target.kind \in {"none", "int"}
    \/ /\ target.kind = "str"
       /\ materials # None
       /\ \E i \in 1..Len(materials.materials) : materials.materials[i].name = target.v

\* the filters of a descriptor after its target filter
ExtraFilters(o, target) == IF target = None THEN o.filters ELSE Tail(o.filters)

Kinds(filters) == [i \in 1..Len(filters) |-> filters[i].kind]

Compiled == ret.op = "CellTally" /\ ret.res.exc = "none"

\* C1: for every tally type of the catalog and every valid target (a material
\* name of the MaterialSet, an integer cell id, or none), constructing a
\* CellTally succeeds and yields the catalog's score followed by the
\* catalog's extra filters in the listed order, whatever the target.
C1_CatalogForEveryTarget ==
    (ret.op = "CellTally" /\ ValidTarget(ret.target, ret.materials)) =>
        /\ ret.res.exc = "none"
        /\ ret.res.o.scores = CatalogScore(ret.odw_score)
        /\ Kinds(ExtraFilters(ret.res.o, ret.target)) = CatalogExtraKinds(ret.odw_score)
        /\ CatalogExtraKinds(ret.odw_score) # <<>> =>
              ExtraFilters(ret.res.o, ret.target)[1].p1 = CatalogSpecies(ret.odw_score)

\* C2: the name of a compiled CellTally is str(target) + "_" + tally_type
\* when a target is given and the tally_type verbatim when it is absent:
\* every construction with a valid target yields a descriptor so named.
C2_NameSynthesis ==
    (ret.op = "CellTally" /\ ValidTarget(ret.target, ret.materials)) =>
        /\ ret.res.exc = "none"
        /\ ret.res.o.name =
              IF ret.target.kind = "none" THEN ret.odw_score
              ELSE IF ret.target.kind = "int"
              THEN ToString(ret.target.v) \o "_" \o ret.odw_score
              ELSE ret.target.v \o "_" \o ret.odw_score

\* C3: the target filter is determined by the kind of the target alone: a
\* material name gives exactly one Material filter of that material, an
\* integer exactly one Cell filter of that id, and an absent target no
\* target filter, the descriptor being produced with the extra filters only.
C3_TargetFilterByKind ==
    (ret.op = "CellTally" /\ ValidTarget(ret.target, ret.materials)) =>
        /\ ret.res.exc = "none"
        /\ Len(ret.res.o.filters) =
              Len(CatalogExtraKinds(ret.odw_score))
                 + (IF ret.target.kind = "none" THEN 0 ELSE 1)
        /\ ret.target.kind = "str" =>
              /\ ret.res.o.filters[1].kind = "Material"
              /\ ret.res.o.filters[1].p1 = ret.target.v
        /\ ret.target.kind = "int" =>
              /\ ret.res.o.filters[1].kind = "Cell"
              /\ ret.res.o.filters[1].p1 = ToString(ret.target.v)
        /\ \A i \in 1..Len(ret.res.o.filters) :
              ret.res.o.filters[i].kind \in {"Material", "Cell"} =>
                  (i = 1 /\ ret.target.kind # "none")

\* C4: an invalid target fails with the dedicated error and produces no
\* descriptor: a string that names no material fails with the validation /
\* not-found error, a target of another type with the type-kind error.
ValidationErrors == {"ValueError", "KeyError", "LookupError"}
C4_InvalidTargetErrors ==
    (ret.op = "CellTally" /\ ~ValidTarget(ret.target, ret.materials)) =>
        IF ret.target.kind = "str"
        THEN ret.res.exc \in ValidationErrors
        ELSE ret.res.exc = "TypeError"

\* C5: for photon_effective_dose the energy-function filter is built from
\* the photon dose coefficients (ISO geometry) and for neutron_effective_dose
\* from the neutron ones: the dose table matches the species of the particle
\* filter of the same descriptor.
DoseTypes == {"neutron_effective_dose", "photon_effective_dose"}
C5_DoseTableMatchesSpecies ==
    (ret.op = "CellTally" /\ ValidTarget(ret.target, ret.materials)
        /\ ret.odw_score \in DoseTypes) =>
        /\ ret.res.exc = "none"
        /\ LET extra == ExtraFilters(ret.res.o, ret.target)
               table == dose_coefficients(CatalogSpecies(ret.odw_score), "ISO")
           IN  /\ Len(extra) = 2
               /\ extra[1] = ParticleFilter(CatalogSpecies(ret.odw_score))
               /\ extra[2].kind = "EnergyFunction"
               /\ extra[2].p1 = table.bins
               /\ extra[2].p2 = table.coeffs

\* the names of a sequence of descriptors
Names(tallies) == [i \in 1..Len(tallies) |-> tallies[i].name]

\* the names the specification expects of expand(types, targets): types
\* outer, targets inner
RECURSIVE ExpectedNames(_, _)
ExpectedNames(types, targets) ==
    IF types = <<>> THEN <<>>
    ELSE [i \in 1..Len(targets) |->
             IF targets[i] = None THEN Head(types)
             ELSE PyStr(targets[i]) \o "_" \o Head(types)]
         \o ExpectedNames(Tail(types), targets)

\* C6: CellTallies(odw_scores, targets, materials) returns exactly
\* len(odw_scores) * len(targets) descriptors, one per (type, target) pair,
\* types outer and targets inner; ["TBR", "flux"] with [None] yields the two
\* descriptors "TBR" and "flux".
C6_ExpansionCountAndOrder ==
    \A i \in 1..Len(calls) :
        (\A k \in 1..Len(calls[i].seen) : ValidTarget(calls[i].seen[k], calls[i].materials)) =>
            /\ calls[i].exc = "none"
            /\ Len(calls[i].tallies) = Len(calls[i].odw_scores) * Len(calls[i].seen)
            /\ Names(calls[i].tallies) = ExpectedNames(calls[i].odw_scores, calls[i].seen)

\* C7: two CellTallies expansions with identical arguments produce equal
\* descriptor sequences, also when targets is omitted in both and the list
\* held by the first result is mutated in between: the default target list
\* is not shared, every expansion without targets runs over [None].
C7_ExpansionIdempotentDefault ==
    /\ \A i, j \in 1..Len(calls) :
          (/\ i < j
           /\ calls[i].odw_scores = calls[j].odw_scores
           /\ calls[i].materials = calls[j].materials
           /\ calls[i].omitted /\ calls[j].omitted) =>
              /\ calls[i].exc = calls[j].exc
              /\ calls[i].tallies = calls[j].tallies
    /\ \A i \in 1..Len(calls) : calls[i].omitted => calls[i].seen = <<None>>

\* ------------------------------------------------------------------------
\* Claims about the tet mesh (TetMeshTally, export_xml), under SpecTet
\* ------------------------------------------------------------------------
\* the backend the specification expects for a file name, "" when the
\* name must be rejected: decided on the last four characters
ExpectedLibrary(f) ==
    IF Len(f) < 4 THEN ""
    ELSE IF f[Len(f) - 3] = "." /\ f[Len(f) - 2] = "h" /\ f[Len(f) - 1] = "5"
            /\ f[Len(f)] = "m"
    THEN "moab"
    ELSE IF f[Len(f) - 3] = "." /\ f[Len(f) - 2] = "e" /\ f[Len(f) - 1] = "x"
            /\ f[Len(f)] = "o"
    THEN "libmesh"
    ELSE ""

ExpectedUmesh(f) == [kind |-> "umesh", filename |-> f, library |-> ExpectedLibrary(f)]

\* C8: building a tet mesh from a file name succeeds exactly when the name
\* ends in .h5m or .exo, .h5m selecting moab and .exo libmesh; any other name
\* fails with ValueError and leaves neither a mesh nor a tally. This holds
\* for TetMeshTally and for the tet mesh branch of export_xml.
C8_TetMeshByExtension ==
    /\ out.op = "TetMeshTally" =>
          IF ExpectedLibrary(out.filename.v) # ""
          THEN /\ out.res.exc = "none"
               /\ out.res.umesh = ExpectedUmesh(out.filename.v)
               /\ out.res.tally.filters = <<MeshFilter(ExpectedUmesh(out.filename.v))>>
          ELSE /\ out.res.exc = "ValueError"
               /\ out.res.umesh = NoMesh
               /\ out.res.tally = NoTally
    /\ (out.op = "export_xml" /\ out.before.tet_mesh_filename # None) =>
          IF ExpectedLibrary(out.before.tet_mesh_filename.v) # ""
          THEN /\ out.loc.umesh = ExpectedUmesh(out.before.tet_mesh_filename.v)
               /\ out.exc # "ValueError"
               /\ \A i \in 1..Len(nm.tallies.v) :
                     nm.tallies.v[i].filters =
                         <<MeshFilter(ExpectedUmesh(out.before.tet_mesh_filename.v))>>
          ELSE /\ out.exc = "ValueError"
               /\ out.loc.umesh = NoMesh
               /\ nm.tallies = ListV(<<>>)
               /\ out.model = None

\* an export_xml with a .txt tet mesh file has ended
C8_Witness ==
    /\ out.op = "export_xml"
    /\ out.before.tet_mesh_filename = TetTxt
    /\ out.before.mesh_tally_tet = ListV(<<StrV("heating")>>)
    /\ out.exc = "ValueError"

\* ------------------------------------------------------------------------
\* Claims about the regular meshes of export_xml, under Spec
\* ------------------------------------------------------------------------
\* the tallies of the object whose first filter is a regular mesh with one of
\* the given ids use exactly the mesh of that id that the call built
TalliesUse(ids, built) ==
    \A i \in 1..Len(nm.tallies.v) :
        LET fs == nm.tallies.v[i].filters
        IN  (/\ fs # <<>>
             /\ fs[1].kind = "Mesh"
             /\ fs[1].p1.kind = "mesh"
             /\ fs[1].p1.mesh_id \in ids) =>
                fs[1].p1 = built[fs[1].p1.mesh_id]

\* C9: when the object requests a 3-D mesh tally (mesh_tally_3d) without
\* explicit 3-D corners and a bounding box (lower, upper) is available, the
\* 3-D mesh has lower_left = lower, upper_right = upper and the configured
\* 3-D resolution as its dimension; with explicit 3-D corners the mesh has
\* those corners instead.
C9_Mesh3dCorners ==
    (out.op = "export_xml" /\ out.before.mesh_tally_3d # None) =>
        /\ (/\ out.before.tet_mesh_filename = None
            /\ (out.before.mesh_3d_corners # None \/ out.before.bounding_box # None)) =>
                out.loc.mesh_xyz # NoRegularMesh
        /\ out.loc.mesh_xyz # NoRegularMesh =>
              /\ out.loc.mesh_xyz.dimension = out.before.mesh_3d_resolution.v
              /\ IF out.before.mesh_3d_corners = None
                 THEN /\ nm.bounding_box # None
                      /\ out.before.bounding_box # None =>
                            nm.bounding_box = out.before.bounding_box
                      /\ out.loc.mesh_xyz.lower_left = nm.bounding_box.v[1]
                      /\ out.loc.mesh_xyz.upper_right = nm.bounding_box.v[2]
                 ELSE /\ out.loc.mesh_xyz.lower_left = out.before.mesh_3d_corners.v[1]
                      /\ out.loc.mesh_xyz.upper_right = out.before.mesh_3d_corners.v[2]
              /\ TalliesUse({1}, <<out.loc.mesh_xyz>>)

\* an export_xml has built the 3-D mesh on a bounding box held by the object,
\* with the default resolution, and has ended without an error
C9_Witness ==
    /\ out.op = "export_xml"
    /\ out.exc = "none"
    /\ out.before.mesh_tally_3d = ListV(<<StrV("heating")>>)
    /\ out.before.mesh_3d_corners = None
    /\ out.before.bounding_box = OtherBox
    /\ out.loc.mesh_xyz.lower_left = <<-9, -9, -9>>
    /\ out.loc.mesh_xyz.upper_right = <<9, 9, 9>>
    /\ out.loc.mesh_xyz.dimension = <<100, 100, 100>>
    /\ Len(nm.tallies.v) = 1

\* the corners the specification expects of the plane meshes xz, xy, yz on the
\* bounding box (lo, hi)
ExpectedPlaneCorners(lo, hi) ==
    << <<<<lo[1], -1, lo[3]>>, <<hi[1], 1, hi[3]>>>>,
       <<<<lo[1], lo[2], -1>>, <<hi[1], hi[2], 1>>>>,
       <<<<-1, lo[2], lo[3]>>, <<1, hi[2], hi[3]>>>> >>

\* meshes of ids 2, 3, 4 at the positions of their ids
ById(meshes) == <<NoRegularMesh, meshes[1], meshes[2], meshes[3]>>

\* C10: when the object requests 2-D mesh tallies (mesh_tally_2d): with
\* explicit 2-D corners the meshes xz, xy and yz all have exactly those two
\* corners; without, each takes the extents of the bounding box on its two
\* in-plane axes and [-1, 1] on its perpendicular axis (y for xz, z for xy,
\* x for yz), whatever the extent of the geometry on that axis.
C10_Mesh2dCorners ==
    (out.op = "export_xml" /\ out.before.mesh_tally_2d # None) =>
        /\ (/\ out.before.tet_mesh_filename = None
            /\ out.before.mesh_tally_3d = None
            /\ (out.before.mesh_2d_corners # None \/ out.before.bounding_box # None)) =>
                out.loc.meshes # NoMeshes
        /\ out.loc.meshes # NoMeshes =>
              /\ IF out.before.mesh_2d_corners # None
                 THEN \A i \in 1..3 :
                        /\ out.loc.meshes[i].lower_left = out.before.mesh_2d_corners.v[1]
                        /\ out.loc.meshes[i].upper_right = out.before.mesh_2d_corners.v[2]
                 ELSE /\ nm.bounding_box # None
                      /\ \A i \in 1..3 :
                            /\ out.loc.meshes[i].lower_left =
                                  ExpectedPlaneCorners(nm.bounding_box.v[1],
                                                       nm.bounding_box.v[2])[i][1]
                            /\ out.loc.meshes[i].upper_right =
                                  ExpectedPlaneCorners(nm.bounding_box.v[1],
                                                       nm.bounding_box.v[2])[i][2]
              /\ \A i \in 1..3 : out.loc.meshes[i].mesh_id = i + 1
              /\ TalliesUse({2, 3, 4}, ById(out.loc.meshes))

\* an export_xml has built the plane meshes on the bounding box it looked up
\* in the geometry, whose y extent is [-4, 4], and has ended without an error
C10_Witness ==
    /\ out.op = "export_xml"
    /\ out.exc = "none"
    /\ out.before.mesh_tally_2d = ListV(<<StrV("flux")>>)
    /\ out.before.mesh_2d_corners = None
    /\ out.before.bounding_box = None
    /\ nm.bounding_box = Box(Vec(-3, -4, -5), Vec(3, 4, 5))
    /\ out.loc.meshes[1].lower_left = <<-3, -1, -5>>
    /\ out.loc.meshes[1].upper_right = <<3, 1, 5>>
    /\ Len(nm.tallies.v) = 3

\* C11: for a 2-D resolution (height, width) each plane mesh has dimension 1
\* on its perpendicular axis and the height and width on its in-plane axes:
\* xz is (width, 1, height), xy is (width, height, 1), yz is (1, width, height).
C11_PlaneDimensions ==
    (out.op = "export_xml" /\ out.before.mesh_tally_2d # None
        /\ out.loc.meshes # NoMeshes) =>
        LET height == out.before.mesh_2d_resolution.v[1]
            width == out.before.mesh_2d_resolution.v[2]
        IN  /\ out.loc.meshes[1].name = "2d_mesh_xz"
            /\ out.loc.meshes[1].dimension = <<width, 1, height>>
            /\ out.loc.meshes[2].name = "2d_mesh_xy"
            /\ out.loc.meshes[2].dimension = <<width, height, 1>>
            /\ out.loc.meshes[3].name = "2d_mesh_yz"
            /\ out.loc.meshes[3].dimension = <<1, width, height>>
            /\ TalliesUse({2, 3, 4}, ById(out.loc.meshes))

\* an export_xml has built the plane meshes with the resolution (40, 50) and
\* has ended without an error
C11_Witness ==
    /\ out.op = "export_xml"
    /\ out.exc = "none"
    /\ out.before.mesh_tally_2d = ListV(<<StrV("flux")>>)
    /\ out.before.mesh_2d_resolution = TupleV(<<40, 50>>)
    /\ out.loc.meshes[1].dimension = <<50, 1, 40>>
    /\ out.loc.meshes[3].dimension = <<1, 50, 40>>
    /\ Len(nm.tallies.v) = 3

\* some requested mesh tally has no explicit corners and the object holds no
\* bounding box when export_xml is called
NeedsBoundingBox(b) ==
    /\ b.bounding_box = None
    /\ \/ (b.mesh_tally_3d # None /\ b.mesh_3d_corners = None)
       \/ (b.mesh_tally_2d # None /\ b.mesh_2d_corners = None)

\* the tet mesh branch of the last export_xml did not raise
TetBranchPassed ==
    \/ out.before.tet_mesh_filename = None
    \/ (out.loc.umesh # NoMesh /\ out.before.mesh_tally_tet.kind = "list")

C13_ResolverMemoized ==
    nm.h5m_filename.v \in {GeomSmall, GeomMissing} => engine.inits <= 1

\* C14: find_bounding_box fails with FileNotFoundError whenever the h5m file
\* does not exist, before it writes any file or initialises the engine.
C14_MissingGeometryFails ==
    (out.op = "find_bounding_box" /\ disk[nm.h5m_filename.v] = "absent") =>
        /\ out.exc = "FileNotFoundError"
        /\ \A f \in XmlFiles : disk[f] # out.who

\* ------------------------------------------------------------------------
\* Claims about the tallies of export_xml, under Spec
\* ------------------------------------------------------------------------
\* the object as it was before the last export_xml, with what earlier calls
\* left on it (tallies, model, materials) removed
Unused(n) ==
    [n EXCEPT !.tallies = None, !.model = None, !.openmc_materials = None, !.mats = None]

\* the tallies export_xml gives on an object of the same configuration that
\* was never exported before
FreshTallies ==
    export_xml(St(Unused(out.before), disk, engine, "none"),
               out.args, out.who, FALSE).st.nm.tallies

\* C15: after every export_xml that returns, also a second one on the same
\* object with the tally configuration changed in between, self.tallies and
\* the tallies of the returned model are exactly the tallies of the
\* configuration of that call: nothing of an earlier call remains.
C15_NoResidue ==
    (out.op = "export_xml" /\ out.exc = "none") =>
        /\ nm.tallies = FreshTallies
        /\ out.model.tallies = nm.tallies
        /\ nm.model = out.model

\* a second export_xml has returned, after a first one that left tallies and
\* a change of the configuration: a tally of the first call is gone
C15_Witness ==
    /\ out.op = "export_xml"
    /\ out.exc = "none"
    /\ budget.exports = 2
    /\ out.before.tallies.kind = "list"
    /\ nm.tallies.v # <<>>
    /\ \E i \in 1..Len(out.before.tallies.v) :
          \A j \in 1..Len(nm.tallies.v) :
              nm.tallies.v[j].name # out.before.tallies.v[i].name

\* the names of the tallies in a list are pairwise distinct
DistinctNames(tallies) ==
    \A i, j \in 1..Len(tallies) : i < j => tallies[i].name # tallies[j].name

\* C16: in every model returned by export_xml the tally names are pairwise
\* distinct, also when a request list repeats a keyword; so are the names of
\* the tallies of TetMeshTallies over several files.
C16_UniqueTallyNames ==
    /\ (out.op = "export_xml" /\ out.exc = "none") =>
          DistinctNames(out.model.tallies.v)
    /\ (out.op = "TetMeshTallies" /\ out.res.exc = "none") =>
          DistinctNames(out.res.tallies)

\* what a claim says of a tally: its name, its score, the kinds of its
\* filters in order, and the material of its first filter ("" if none)
Summary(t) ==
    [name |-> t.name, score |-> t.scores[1].v, kinds |-> Kinds(t.filters),
     material |-> IF t.filters # <<>> /\ t.filters[1].kind = "Material"
                  THEN t.filters[1].p1 ELSE ""]

Summaries(ts) == [i \in 1..Len(ts) |-> Summary(ts[i])]

\* the material tags of a materials dictionary other than DT_plasma, in order
RECURSIVE TagsButPlasma(_)
TagsButPlasma(items) ==
    IF items = <<>> THEN <<>>
    ELSE (IF Head(items).tag = "DT_plasma" THEN <<>> ELSE <<Head(items).tag>>)
         \o TagsButPlasma(Tail(items))

\* one descriptor per material tag, named <tag>_<suffix>
PerMaterial(tags, suffix, score, kinds) ==
    [i \in 1..Len(tags) |->
        [name |-> tags[i] \o "_" \o suffix, score |-> score,
         kinds |-> <<"Material">> \o kinds, material |-> tags[i]]]

\* the descriptors of one cell tally keyword, as the code emits them
CellDescriptors(k, tags, photon) ==
    IF k = "TBR"
    THEN <<[name |-> "TBR", score |-> "(n,Xt)", kinds |-> <<>>, material |-> ""]>>
         \o PerMaterial(tags, "TBR", "(n,Xt)", <<>>)
    ELSE IF k = "spectra"
    THEN PerMaterial(tags, "neutron_spectra", "flux", <<"Particle", "Energy">>)
         \o (IF photon
             THEN PerMaterial(tags, "photon_spectra", "flux", <<"Particle", "Energy">>)
             ELSE <<>>)
    ELSE IF k = "effective_dose"
    THEN PerMaterial(tags, "neutron_effective_dose", "flux",
                     <<"EnergyFunction", "Particle">>)
         \o (IF photon
             THEN PerMaterial(tags, "photon_effective_dose", "flux",
                              <<"EnergyFunction", "Particle">>)
             ELSE <<>>)
    ELSE PerMaterial(tags, k, k, <<>>)

RECURSIVE AllCellDescriptors(_, _, _)
AllCellDescriptors(keywords, tags, photon) ==
    IF keywords = <<>> THEN <<>>
    ELSE CellDescriptors(Head(keywords).v, tags, photon)
         \o AllCellDescriptors(Tail(keywords), tags, photon)

\* the last export_xml returned and had cell tallies to build
CellCall == out.op = "export_xml" /\ out.exc = "none" /\ out.before.cell_tallies # None

\* the tallies of the last export_xml that are not on a mesh
CellTalliesBuilt ==
    SelectSeq(nm.tallies.v, LAMBDA t : t.filters = <<>> \/ t.filters[1].kind # "Mesh")

PerMaterialKeywords == {"TBR", "spectra", "effective_dose"}

SharedTypes ==
    {"TBR", "neutron_spectra", "photon_spectra", "neutron_effective_dose",
     "photon_effective_dose"}

\* C18: a per-material tally of export_xml named <material_tag>_<type>, for
\* the types TBR, neutron/photon spectra and neutron/photon effective dose,
\* has the score that CellTally.set_score gives the type and, after its
\* material filter, the filter kinds that CellTally.set_filter gives the
\* type, in the same order (particle, then energy or energy function).
C18_SameCatalog ==
    CellCall =>
        \A i \in 1..Len(CellTalliesBuilt) : \A type \in SharedTypes :
            LET t == CellTalliesBuilt[i]
            IN  (Summary(t).material # "" /\ t.name = Summary(t).material \o "_" \o type) =>
                   /\ t.scores[1].v = set_score([odw_score |-> type]).o.scores
                   /\ Kinds(Tail(t.filters)) = Kinds(additional_filters(type))

\* ------------------------------------------------------------------------
\* Claims about the mesh tallies of export_xml, under Spec
\* ------------------------------------------------------------------------
\* the tallies of the object on the regular mesh of the given id
OnRegularMesh(id) ==
    SelectSeq(nm.tallies.v,
              LAMBDA t : /\ t.filters # <<>>
                         /\ t.filters[1].kind = "Mesh"
                         /\ t.filters[1].p1.kind = "mesh"
                         /\ t.filters[1].p1.mesh_id = id)

\* the effective dose tally of one particle on a 3-D mesh, as C19 states it
StatedDose3d(particle, mesh) ==
    [name |-> "effective_dose_" \o particle \o "_on_3D_mesh",
     scores |-> <<StrV("flux")>>,
     filters |-> <<[kind |-> "Mesh", p1 |-> mesh, p2 |-> ""],
                   [kind |-> "Particle", p1 |-> particle, p2 |-> ""],
                   [kind |-> "EnergyFunction",
                    p1 |-> particle \o "_ISO_energy_bins",
                    p2 |-> particle \o "_ISO_dose_coeffs"]>>]

RECURSIVE Stated3d(_, _, _)
Stated3d(keywords, photon, mesh) ==
    IF keywords = <<>> THEN <<>>
    ELSE (IF Head(keywords).v = "effective_dose"
          THEN <<StatedDose3d("neutron", mesh)>>
               \o (IF photon THEN <<StatedDose3d("photon", mesh)>> ELSE <<>>)
          ELSE <<[name |-> Head(keywords).v \o "_on_3D_mesh",
                  scores |-> <<Head(keywords)>>,
                  filters |-> <<[kind |-> "Mesh", p1 |-> mesh, p2 |-> ""]>>]>>)
         \o Stated3d(Tail(keywords), photon, mesh)

OnUmesh ==
    SelectSeq(nm.tallies.v,
              LAMBDA t : /\ t.filters # <<>>
                         /\ t.filters[1].kind = "Mesh"
                         /\ t.filters[1].p1.kind = "umesh")

\* one tally <score>_on_3D_u_mesh per requested tet score, on the mesh
StatedTet(scores, umesh) ==
    [i \in 1..Len(scores) |->
        [name |-> scores[i].v \o "_on_3D_u_mesh", scores |-> <<scores[i]>>,
         filters |-> <<[kind |-> "Mesh", p1 |-> umesh, p2 |-> ""]>>]]

\* C20: export_xml builds tet mesh tallies exactly when a tet mesh file is
\* configured. Without one, no tally is on an unstructured mesh. With a
\* valid one (.h5m or .exo) the call completes without error and the tallies
\* on the unstructured mesh are one <score>_on_3D_u_mesh per requested tet
\* score, none when mesh_tally_tet was left at its default None.
C20_TetTalliesWhenConfigured ==
    (out.op = "export_xml" /\ out.before.mesh_tally_tet.kind \in {"none", "list"}) =>
        IF out.before.tet_mesh_filename = None
        THEN OnUmesh = <<>>
        ELSE ExpectedLibrary(out.before.tet_mesh_filename.v) # "" =>
                /\ out.exc = "none"
                /\ OnUmesh =
                      StatedTet(IF out.before.mesh_tally_tet = None THEN <<>>
                                ELSE out.before.mesh_tally_tet.v,
                                ExpectedUmesh(out.before.tet_mesh_filename.v))

\* ------------------------------------------------------------------------
\* Claims about the tally requests of the NeutronicsModel, under Spec
\* ------------------------------------------------------------------------
\* the four tally requests
TallyRequests == {"cell_tallies", "mesh_tally_2d", "mesh_tally_3d", "mesh_tally_tet"}

\* the known tally keywords: the six named ones and the reaction catalog
KnownKeywords ==
    {StrV("TBR"), StrV("heating"), StrV("flux"), StrV("spectra"),
     StrV("absorption"), StrV("effective_dose")}
        \cup REACTION_MT_keys \cup REACTION_NAME_keys

\* the keywords of a request that the last export_xml turned into tallies:
\* those of a request that is set, the tet request counting only with a tet
\* mesh file
Constructed(b, a) ==
    IF b[a].kind # "list" \/ (a = "mesh_tally_tet" /\ b.tet_mesh_filename = None)
    THEN {}
    ELSE {b[a].v[i] : i \in 1..Len(b[a].v)}

\* C21: no keyword outside the known ones reaches tally construction: for
\* each of the four requests an assignment of a list with an unknown keyword
\* is rejected with ValueError, and at every export_xml that returns every
\* keyword turned into a tally is a known one.
C21_UnknownKeywordRejected ==
    /\ (/\ out.op = "set" /\ out.attr \in TallyRequests
        /\ out.value.kind = "list"
        /\ \E i \in 1..Len(out.value.v) : out.value.v[i] \notin KnownKeywords) =>
           out.exc = "ValueError"
    /\ (out.op = "export_xml" /\ out.exc = "none") =>
           \A a \in TallyRequests : Constructed(out.before, a) \subseteq KnownKeywords

\* C22: an assignment to one of the four tally requests of a value that is
\* neither None nor a list (the integer 1, a bare string) raises TypeError
\* and leaves the request as it was.
C22_MalformedRequestRejected ==
    [][(/\ out'.op = "set" /\ out'.attr \in TallyRequests
        /\ out'.value.kind \notin {"none", "list"}) =>
           /\ out'.exc = "TypeError"
           /\ nm'[out'.attr] = nm[out'.attr]]_vars

\* ------------------------------------------------------------------------
\* Claims about the arguments and the failures of export_xml, under Spec
\* ------------------------------------------------------------------------
\* the object with each attribute that export_xml takes as an argument
\* replaced by the value the call resolved for it
WithPassed(n, passed) ==
    [a \in DOMAIN n |-> IF a \in DOMAIN passed THEN passed[a] ELSE n[a]]

\* the tallies of an export_xml without arguments on that object
TalliesFromPassed ==
    export_xml(St(WithPassed(Unused(out.before), out.passed), disk, engine, "none"),
               NoArgs, out.who, FALSE).st.nm.tallies

\* C23: each optional argument of export_xml falls back to the attribute of
\* the same name only when it is None: the model a call returns has the
\* tallies of the values the call resolved (the passed value where one was
\* passed, the attribute otherwise) and the resolved source.
C23_PassedArgumentsUsed ==
    (out.op = "export_xml" /\ out.exc = "none") =>
        /\ out.model.tallies = TalliesFromPassed
        /\ out.model.settings.source = out.passed.source

\* the corners of a regular mesh are ordered on every axis
Ordered(mesh) == \A i \in 1..3 : mesh.lower_left[i] < mesh.upper_right[i]

\* C24: every regular mesh of a model that export_xml returns has lower_left
\* strictly below upper_right on every axis (corners or a bounding box with
\* lower >= upper on some axis make the call fail instead).
C24_MeshCornersOrdered ==
    (out.op = "export_xml" /\ out.exc = "none") =>
        \A i \in 1..Len(out.model.tallies.v) :
            LET fs == out.model.tallies.v[i].filters
            IN  (fs # <<>> /\ fs[1].kind = "Mesh" /\ fs[1].p1.kind = "mesh") =>
                    Ordered(fs[1].p1)

\* C25: export_xml is fail-fast and non-partial: after a call that raised,
\* self.tallies and self.model are as they were before the call; and in
\* every state where self.model is set its tallies are those of self.tallies.
C25_NoPartialResult ==
    /\ (out.op = "export_xml" /\ out.exc # "none") =>
          /\ nm.tallies = out.before.tallies
          /\ nm.model = out.before.model
    /\ nm.model # None => nm.model.tallies = nm.tallies

\* ------------------------------------------------------------------------
\* Claims about the engine and the files, under Spec
\* ------------------------------------------------------------------------
EngineFiles == {"settings.xml", "plots.xml", "geometry.xml", "materials.xml"}

\* the last call was a find_bounding_box that initialised the engine: the
\* geometry file was there and the materials were built
FindInitialised ==
    /\ out.op = "find_bounding_box"
    /\ out.exc \in {"none", "RuntimeError"}
    /\ disk[nm.h5m_filename.v] # "absent"

\* C26: the resolver is a scoped resource: once find_bounding_box has ended,
\* by returning the box or by raising during the query, the engine is
\* finalised and none of settings.xml, plots.xml, geometry.xml and
\* materials.xml is left on disk.
C26_EngineScoped ==
    /\ ~engine.live
    /\ FindInitialised => \A f \in EngineFiles : disk[f] = "absent"

ModelFiles == {"geometry.xml", "materials.xml", "settings.xml", "tallies.xml"}

\* C27: after every export_xml that returns normally geometry.xml,
\* materials.xml, settings.xml and tallies.xml are on disk and were written
\* by that call, whatever the configuration and the files before the call,
\* also when the call made find_bounding_box remove three of them part-way.
C27_ModelFilesWritten ==
    (out.op = "export_xml" /\ out.exc = "none") =>
        \A f \in ModelFiles : disk[f] = out.who

\* a second export_xml has returned after looking the bounding box up, with
\* the four files written by it and plots.xml removed by the lookup
C27_Witness ==
    /\ out.op = "export_xml" /\ out.exc = "none"
    /\ out.who = "export_xml2"
    /\ out.loc.finds = 1
    /\ disk["plots.xml"] = "absent"
    /\ \A f \in ModelFiles : disk[f] = out.who

\* ------------------------------------------------------------------------
\* Claims about the cached bounding box, under Spec
\* ------------------------------------------------------------------------
\* the bounding boxes a caller supplies
SuppliedBoxes == {OtherBox, InvertedCorners}

\* C28: when export_xml places the 3-D mesh from the bounding box the object
\* holds (no explicit corners) and that box was not supplied by the caller,
\* the mesh spans the bounding box of the geometry file h5m_filename names
\* at the call, never that of a geometry configured earlier.
C28_BoxOfCurrentGeometry ==
    (/\ out.op = "export_xml"
     /\ out.before.mesh_tally_3d # None
     /\ out.before.mesh_3d_corners = None
     /\ out.before.bounding_box \notin SuppliedBoxes
     /\ out.loc.mesh_xyz # NoRegularMesh) =>
        /\ out.loc.mesh_xyz.lower_left = global_bounding_box(out.before.h5m_filename.v).v[1]
        /\ out.loc.mesh_xyz.upper_right = global_bounding_box(out.before.h5m_filename.v).v[2]

====
